---- MODULE Spec2Model ----
(***************************************************************************)
(* The TodoList contract (contracts/TodoList.sol) as a state machine.      *)
(*                                                                         *)
(* State: the two storage mappings of the contract, the block timestamp,   *)
(* and the last transaction or eth_call made against the contract: who     *)
(* called what with which arguments at which timestamp, how it ended       *)
(* (success, revert with a reason string, panic with a code), the events   *)
(* it logged and the value it returned.  `pre` is the storage as it was    *)
(* when that call began.  `steps` counts the steps that changed the chain: *)
(* the transactions that committed and the advances of the timestamp.      *)
(* `emitted` summarises the event log of the chain: how many events of     *)
(* each name were logged for each user and task id since deployment.       *)
(*                                                                         *)
(* Solidity arrays are 0-based, TLA+ sequences 1-based: slot i of an       *)
(* array is element i + 1 of the sequence that models it (see At).         *)
(***************************************************************************)
EXTENDS Integers, Sequences, FiniteSets, TLC

VARIABLES userTasks, taskCount, now, call, pre, steps, emitted

\* The state of the web client (frontend/src/hooks/useWallet.js, App.jsx):
\* the React state of useWallet, of useTodoContract and of App, the
\* txPending the rendered handlers closed over, the timers that clear
\* txStatus, and the asynchronous runs of handleTransaction and of
\* fetchTasks, finished ones included.
VARIABLES provider, signer, account, chainId, network,
          contract, tasks, loading, error,
          txPending, txStatus, rendered, timers,
          runs, fetches

chainVars == <<userTasks, taskCount, now, call, pre, steps, emitted>>

walletVars == <<provider, signer, account, chainId, network>>

clientVars == <<provider, signer, account, chainId, network,
                contract, tasks, loading, error,
                txPending, txStatus, rendered, timers,
                runs, fetches>>

vars == <<userTasks, taskCount, now, call, pre, steps, emitted,
          provider, signer, account, chainId, network,
          contract, tasks, loading, error,
          txPending, txStatus, rendered, timers,
          runs, fetches>>

(***************************************************************************)
(* Bounds of the model.                                                    *)
(***************************************************************************)
\* A run commits at most MaxSteps transactions and timestamp advances in
\* all; calls that revert and view calls are not counted.
MaxSteps == 4

\* The identities (msg.sender values) that call the contract.
Users == {"owner", "user1"}

(***************************************************************************)
(* Strings.  bytes(s).length of the contract is Len(s).                    *)
(***************************************************************************)
RECURSIVE repeat(_, _)
\* JavaScript's s.repeat(n), as the tests build their contents.
repeat(s, n) ==
    IF n = 0 THEN ""
    ELSE IF n % 2 = 1 THEN s \o repeat(s \o s, n \div 2)
    ELSE repeat(s \o s, n \div 2)

\* The limit of the nonEmptyContent modifier.
MaxContentLength == 500

\* The contents callers pass: empty, one byte, and the 500 and 501 bytes of
\* the tests.
Contents == {"", "a", repeat("a", 500), repeat("a", 501)}

\* The task ids callers pass.
TaskIds == 0 .. 1

\* Slot i of a Solidity array.
At(arr, i) == arr[i + 1]

\* The indices of a Solidity array.
Indices(arr) == 0 .. (Len(arr) - 1)

(***************************************************************************)
(* Outcomes of a call.                                                     *)
(***************************************************************************)
OK == "ok"
ErrTaskNotFound == "Task does not exist"
ErrEmpty == "Content cannot be empty"
ErrTooLong == "Content too long (max 500 chars)"
ErrAlreadyDeleted == "Task already deleted"
\* Panic(0x11): arithmetic overflow or underflow in checked arithmetic.
PanicArithmetic == "Panic(0x11)"

(***************************************************************************)
(* The Task struct and the events.                                         *)
(***************************************************************************)
Task(id, content, completed, createdAt, completedAt) ==
    [id |-> id, content |-> content, completed |-> completed,
     createdAt |-> createdAt, completedAt |-> completedAt]

\* The value of a freshly allocated memory Task (new Task[](n) zero-fills).
ZeroTask == Task(0, "", FALSE, 0, 0)

TaskCreated(user, taskId, content, timestamp) ==
    [name |-> "TaskCreated", user |-> user, taskId |-> taskId,
     content |-> content, timestamp |-> timestamp]

TaskCompleted(user, taskId, timestamp) ==
    [name |-> "TaskCompleted", user |-> user, taskId |-> taskId, timestamp |-> timestamp]

TaskUncompleted(user, taskId, timestamp) ==
    [name |-> "TaskUncompleted", user |-> user, taskId |-> taskId, timestamp |-> timestamp]

TaskUpdated(user, taskId, newContent, timestamp) ==
    [name |-> "TaskUpdated", user |-> user, taskId |-> taskId,
     newContent |-> newContent, timestamp |-> timestamp]

TaskDeleted(user, taskId, timestamp) ==
    [name |-> "TaskDeleted", user |-> user, taskId |-> taskId, timestamp |-> timestamp]

(***************************************************************************)
(* How a call ends.  A revert or a panic rolls the storage back and logs   *)
(* nothing; a success commits the new storage and the events.  Either way  *)
(* `call` records the call and `pre` the storage it started from.          *)
(***************************************************************************)
Storage == [userTasks |-> userTasks, taskCount |-> taskCount]

Failed(fn, sender, args, status, reason) ==
    /\ call' = [fn |-> fn, sender |-> sender, args |-> args, timestamp |-> now,
                status |-> status, reason |-> reason, events |-> <<>>]
    /\ pre' = Storage
    /\ UNCHANGED <<userTasks, taskCount, now, steps, emitted>>

Reverted(fn, sender, args, reason) == Failed(fn, sender, args, "revert", reason)

Panicked(fn, sender, args, code) == Failed(fn, sender, args, "panic", code)

\* What the log summary keeps of an event: its name and its indexed topics.
Key(e) == <<e.name, e.user, e.taskId>>

RECURSIVE Tally(_, _)
\* The log summary after `events` were appended to the log.
Tally(bag, events) ==
    IF events = <<>> THEN bag
    ELSE LET k == Key(Head(events))
         IN  Tally(IF k \in DOMAIN bag THEN [bag EXCEPT ![k] = @ + 1]
                   ELSE bag @@ (k :> 1),
                   Tail(events))

Committed(fn, sender, args, writes, events) ==
    /\ call' = [fn |-> fn, sender |-> sender, args |-> args, timestamp |-> now,
                status |-> "success", reason |-> OK, events |-> events]
    /\ pre' = Storage
    /\ userTasks' = writes.userTasks
    /\ taskCount' = writes.taskCount
    /\ steps < MaxSteps
    /\ steps' = steps + 1
    /\ emitted' = Tally(emitted, events)
    /\ UNCHANGED now

Returned(fn, sender, args, ret) ==
    /\ call' = [fn |-> fn, sender |-> sender, args |-> args, timestamp |-> now,
                status |-> "success", reason |-> OK, events |-> <<>>, ret |-> ret]
    /\ pre' = Storage
    /\ UNCHANGED <<userTasks, taskCount, now, steps, emitted>>

(***************************************************************************)
(* Modifiers.                                                              *)
(***************************************************************************)
\* The condition of validTaskId's require.
validTaskId(sender, _taskId) == _taskId < Len(userTasks[sender])

\* nonEmptyContent with < for <= in the second require.
nonEmptyContentStrict(_content) ==
    IF ~(Len(_content) > 0) THEN ErrEmpty
    ELSE IF ~(Len(_content) < MaxContentLength) THEN ErrTooLong
    ELSE OK

\* nonEmptyContent's two requires in order: the reason of the first that
\* fails, or OK.
nonEmptyContent(_content) ==
    IF ~(Len(_content) > 0) THEN ErrEmpty
    ELSE IF ~(Len(_content) <= MaxContentLength) THEN ErrTooLong
    ELSE OK

(***************************************************************************)
(* Checked uint256 arithmetic on taskCount.  x-- panics at 0.  x++ panics  *)
(* at 2^256 - 1, which no run reaches: a count grows only with createTask. *)
(***************************************************************************)
Underflows(x) == x = 0

(***************************************************************************)
(* createTask                                                              *)
(***************************************************************************)
\* pushTask with completedAt stamped like createdAt.
pushTaskCompletedAtNow(array, _content, timestamp) ==
    Append(array, Task(Len(array), _content, FALSE, timestamp, timestamp))

\* The array after the push of the new Task.
pushTask(array, _content, timestamp) ==
    Append(array, Task(Len(array), _content, FALSE, timestamp, 0))

RECURSIVE TotalLength(_, _)
\* The number of slots of the arrays of the given users together.
TotalLength(tasksOf, users) ==
    IF users = {} THEN 0
    ELSE LET u == CHOOSE x \in users : TRUE
         IN  Len(tasksOf[u]) + TotalLength(tasksOf, users \ {u})

\* createTaskWrites with one id sequence for all users.
createTaskWritesSharedIds(sender, _content) ==
    [userTasks |-> [userTasks EXCEPT ![sender] =
                        Append(@, Task(TotalLength(userTasks, Users), _content,
                                       FALSE, now, 0))],
     taskCount |-> [taskCount EXCEPT ![sender] = @ + 1]]

\* createTaskWrites with the id taken from the live count, not the length.
createTaskWritesIdFromCount(sender, _content) ==
    [userTasks |-> [userTasks EXCEPT ![sender] =
                        Append(@, Task(taskCount[sender], _content, FALSE, now, 0))],
     taskCount |-> [taskCount EXCEPT ![sender] = @ + 1]]

\* The storage after the body.
createTaskWrites(sender, _content) ==
    [userTasks |-> [userTasks EXCEPT ![sender] = pushTask(@, _content, now)],
     taskCount |-> [taskCount EXCEPT ![sender] = @ + 1]]

\* createTask with taskId read after the push.
createTaskIdAfterPush(sender, _content) ==
    LET args == [_content |-> _content]
        taskId == Len(userTasks[sender]) + 1
    IN  IF nonEmptyContent(_content) # OK
        THEN Reverted("createTask", sender, args, nonEmptyContent(_content))
        ELSE Committed("createTask", sender, args,
                       createTaskWrites(sender, _content),
                       <<TaskCreated(sender, taskId, _content, now)>>)

\* createTask behind a registration: only an account that holds a task, or
\* the deployer, may create one.
createTaskRegisteredOnly(sender, _content) ==
    LET args == [_content |-> _content]
        taskId == Len(userTasks[sender])
    IN  IF ~(sender = "owner" \/ Len(userTasks[sender]) > 0)
        THEN Reverted("createTask", sender, args, "Not registered")
        ELSE IF nonEmptyContent(_content) # OK
        THEN Reverted("createTask", sender, args, nonEmptyContent(_content))
        ELSE Committed("createTask", sender, args,
                       createTaskWrites(sender, _content),
                       <<TaskCreated(sender, taskId, _content, now)>>)

createTask(sender, _content) ==
    LET args == [_content |-> _content]
        taskId == Len(userTasks[sender])
    IN  IF nonEmptyContent(_content) # OK
        THEN Reverted("createTask", sender, args, nonEmptyContent(_content))
        ELSE Committed("createTask", sender, args,
                       createTaskWrites(sender, _content),
                       <<TaskCreated(sender, taskId, _content, now)>>)

(***************************************************************************)
(* toggleTask                                                              *)
(***************************************************************************)
\* toggled that stamps createdAt where the code stamps completedAt.
toggledStampsCreatedAt(task, timestamp) ==
    LET completed == ~task.completed
    IN  IF completed
        THEN [task EXCEPT !.completed = TRUE, !.createdAt = timestamp]
        ELSE [task EXCEPT !.completed = FALSE, !.completedAt = 0]

\* toggled that sets the flag instead of flipping it.
toggledAlwaysCompleted(task, timestamp) ==
    [task EXCEPT !.completed = TRUE, !.completedAt = timestamp]

\* The slot after the toggle.
toggled(task, timestamp) ==
    LET completed == ~task.completed
    IN  [task EXCEPT !.completed = completed,
                     !.completedAt = IF completed THEN timestamp ELSE 0]

\* toggleEvent with the two events exchanged.
toggleEventExchanged(sender, _taskId, task, timestamp) ==
    IF task.completed
    THEN TaskUncompleted(sender, _taskId, timestamp)
    ELSE TaskCompleted(sender, _taskId, timestamp)

\* The event the toggle emits, from the slot after the toggle.
toggleEvent(sender, _taskId, task, timestamp) ==
    IF task.completed
    THEN TaskCompleted(sender, _taskId, timestamp)
    ELSE TaskUncompleted(sender, _taskId, timestamp)

\* The storage after the body.
toggleTaskWrites(sender, _taskId) ==
    [userTasks |-> [userTasks EXCEPT ![sender][_taskId + 1] = toggled(@, now)],
     taskCount |-> taskCount]

\* toggleTask with the require of deleteTask's body.
toggleTaskRejectsDeleted(sender, _taskId) ==
    LET args == [_taskId |-> _taskId]
        writes == toggleTaskWrites(sender, _taskId)
    IN  IF ~validTaskId(sender, _taskId)
        THEN Reverted("toggleTask", sender, args, ErrTaskNotFound)
        ELSE IF ~(Len(At(userTasks[sender], _taskId).content) > 0)
        THEN Reverted("toggleTask", sender, args, ErrAlreadyDeleted)
        ELSE Committed("toggleTask", sender, args, writes,
                       <<toggleEvent(sender, _taskId,
                                     At(writes.userTasks[sender], _taskId), now)>>)

\* toggleTask without the validTaskId modifier: the array access of the body
\* panics on an index out of bounds, Panic(0x32).
toggleTaskNoModifier(sender, _taskId) ==
    LET args == [_taskId |-> _taskId]
        writes == toggleTaskWrites(sender, _taskId)
    IN  IF ~(_taskId < Len(userTasks[sender]))
        THEN Panicked("toggleTask", sender, args, "Panic(0x32)")
        ELSE Committed("toggleTask", sender, args, writes,
                       <<toggleEvent(sender, _taskId,
                                     At(writes.userTasks[sender], _taskId), now)>>)

toggleTask(sender, _taskId) ==
    LET args == [_taskId |-> _taskId]
        writes == toggleTaskWrites(sender, _taskId)
    IN  IF ~validTaskId(sender, _taskId)
        THEN Reverted("toggleTask", sender, args, ErrTaskNotFound)
        ELSE Committed("toggleTask", sender, args, writes,
                       <<toggleEvent(sender, _taskId,
                                     At(writes.userTasks[sender], _taskId), now)>>)

(***************************************************************************)
(* updateTask                                                              *)
(***************************************************************************)
\* updated that also reopens the task.
updatedReopens(task, _newContent) ==
    [task EXCEPT !.content = _newContent, !.completed = FALSE, !.completedAt = 0]

\* The slot after the update.
updated(task, _newContent) == [task EXCEPT !.content = _newContent]

\* updateTaskCheck with the two modifiers in the other order.
updateTaskCheckContentFirst(sender, _taskId, _newContent) ==
    IF nonEmptyContent(_newContent) # OK THEN nonEmptyContent(_newContent)
    ELSE IF ~validTaskId(sender, _taskId) THEN ErrTaskNotFound
    ELSE OK

\* updateTaskCheck with the require of deleteTask's body between the two
\* modifiers.
updateTaskCheckRejectsDeleted(sender, _taskId, _newContent) ==
    IF ~validTaskId(sender, _taskId) THEN ErrTaskNotFound
    ELSE IF ~(Len(At(userTasks[sender], _taskId).content) > 0) THEN ErrAlreadyDeleted
    ELSE nonEmptyContent(_newContent)

\* The modifiers run in the order written: validTaskId, then nonEmptyContent.
updateTaskCheck(sender, _taskId, _newContent) ==
    IF ~validTaskId(sender, _taskId) THEN ErrTaskNotFound
    ELSE nonEmptyContent(_newContent)

\* updateTaskWrites on slot _taskId of every user that has one, not only of
\* the sender.
updateTaskWritesAllUsers(sender, _taskId, _newContent) ==
    [userTasks |-> [u \in Users |->
                        IF _taskId < Len(userTasks[u])
                        THEN [userTasks[u] EXCEPT ![_taskId + 1] = updated(@, _newContent)]
                        ELSE userTasks[u]],
     taskCount |-> taskCount]

\* The storage after the body.
updateTaskWrites(sender, _taskId, _newContent) ==
    [userTasks |-> [userTasks EXCEPT ![sender][_taskId + 1] = updated(@, _newContent)],
     taskCount |-> taskCount]

updateTask(sender, _taskId, _newContent) ==
    LET args == [_taskId |-> _taskId, _newContent |-> _newContent]
    IN  IF updateTaskCheck(sender, _taskId, _newContent) # OK
        THEN Reverted("updateTask", sender, args,
                      updateTaskCheck(sender, _taskId, _newContent))
        ELSE Committed("updateTask", sender, args,
                       updateTaskWrites(sender, _taskId, _newContent),
                       <<TaskUpdated(sender, _taskId, _newContent, now)>>)

(***************************************************************************)
(* deleteTask                                                              *)
(***************************************************************************)
\* deleted without the write to the completed flag.
deletedKeepsFlag(task) == [task EXCEPT !.content = ""]

\* The slot after the delete.
deleted(task) == [task EXCEPT !.content = "", !.completed = TRUE]

\* deleteTaskCheck without the require of the body.
deleteTaskCheckNoRequire(sender, _taskId) ==
    IF ~validTaskId(sender, _taskId) THEN ErrTaskNotFound ELSE OK

\* deleteTaskWrites that removes the slot from the array.
deleteTaskWritesCompacts(sender, _taskId) ==
    [userTasks |-> [userTasks EXCEPT ![sender] =
                        SubSeq(@, 1, _taskId) \o SubSeq(@, _taskId + 2, Len(@))],
     taskCount |-> [taskCount EXCEPT ![sender] = @ - 1]]

\* validTaskId, then the require of the body.
deleteTaskCheck(sender, _taskId) ==
    IF ~validTaskId(sender, _taskId) THEN ErrTaskNotFound
    ELSE IF ~(Len(At(userTasks[sender], _taskId).content) > 0) THEN ErrAlreadyDeleted
    ELSE OK

\* The storage after the body.
deleteTaskWrites(sender, _taskId) ==
    [userTasks |-> [userTasks EXCEPT ![sender][_taskId + 1] = deleted(@)],
     taskCount |-> [taskCount EXCEPT ![sender] = @ - 1]]

\* deleteTask that decrements the count ahead of the require of the body and
\* keeps the decrement when the require fails.
deleteTaskCountsBeforeRequire(sender, _taskId) ==
    LET args == [_taskId |-> _taskId]
    IN  IF deleteTaskCheck(sender, _taskId) = ErrAlreadyDeleted
           /\ ~Underflows(taskCount[sender])
        THEN /\ call' = [fn |-> "deleteTask", sender |-> sender, args |-> args,
                         timestamp |-> now, status |-> "revert",
                         reason |-> ErrAlreadyDeleted, events |-> <<>>]
             /\ pre' = Storage
             /\ taskCount' = [taskCount EXCEPT ![sender] = @ - 1]
             /\ UNCHANGED <<userTasks, now, steps, emitted>>
        ELSE IF deleteTaskCheck(sender, _taskId) # OK
        THEN Reverted("deleteTask", sender, args, deleteTaskCheck(sender, _taskId))
        ELSE IF Underflows(taskCount[sender])
        THEN Panicked("deleteTask", sender, args, PanicArithmetic)
        ELSE Committed("deleteTask", sender, args,
                       deleteTaskWrites(sender, _taskId),
                       <<TaskDeleted(sender, _taskId, now)>>)

deleteTask(sender, _taskId) ==
    LET args == [_taskId |-> _taskId]
    IN  IF deleteTaskCheck(sender, _taskId) # OK
        THEN Reverted("deleteTask", sender, args, deleteTaskCheck(sender, _taskId))
        ELSE IF Underflows(taskCount[sender])
        THEN Panicked("deleteTask", sender, args, PanicArithmetic)
        ELSE Committed("deleteTask", sender, args,
                       deleteTaskWrites(sender, _taskId),
                       <<TaskDeleted(sender, _taskId, now)>>)

(***************************************************************************)
(* View functions.                                                         *)
(***************************************************************************)
\* getTask that also refuses a slot with empty content.
getTaskLiveOnly(sender, _taskId) ==
    LET args == [_taskId |-> _taskId]
    IN  IF ~validTaskId(sender, _taskId)
        THEN Reverted("getTask", sender, args, ErrTaskNotFound)
        ELSE IF ~(Len(At(userTasks[sender], _taskId).content) > 0)
        THEN Reverted("getTask", sender, args, ErrAlreadyDeleted)
        ELSE Returned("getTask", sender, args, At(userTasks[sender], _taskId))

getTask(sender, _taskId) ==
    LET args == [_taskId |-> _taskId]
    IN  IF ~validTaskId(sender, _taskId)
        THEN Reverted("getTask", sender, args, ErrTaskNotFound)
        ELSE Returned("getTask", sender, args, At(userTasks[sender], _taskId))

\* getAllTasks that leaves out the slots with empty content.
getAllTasksLiveOnly(sender) ==
    Returned("getAllTasks", sender, <<>>,
             SelectSeq(userTasks[sender], LAMBDA task : Len(task.content) > 0))

getAllTasks(sender) == Returned("getAllTasks", sender, <<>>, userTasks[sender])

getActiveTaskCount(sender) ==
    Returned("getActiveTaskCount", sender, <<>>, taskCount[sender])

\* isCompleted without the test of the content.
isCompletedIgnoresContent(task) == task.completed

\* The condition of both loops of getCompletedTasks.
isCompleted(task) == task.completed /\ Len(task.content) > 0

RECURSIVE countCompleted(_, _)
\* The first loop of getCompletedTasks, from index i on.
countCompleted(allTasks, i) ==
    IF ~(i < Len(allTasks)) THEN 0
    ELSE (IF isCompleted(At(allTasks, i)) THEN 1 ELSE 0) + countCompleted(allTasks, i + 1)

RECURSIVE fillCompletedNoAdvance(_, _, _, _)
\* fillCompleted without index++.
fillCompletedNoAdvance(allTasks, i, completedTasks, index) ==
    IF ~(i < Len(allTasks)) THEN completedTasks
    ELSE IF isCompleted(At(allTasks, i))
    THEN fillCompletedNoAdvance(allTasks, i + 1,
                                [completedTasks EXCEPT ![index + 1] = At(allTasks, i)],
                                index)
    ELSE fillCompletedNoAdvance(allTasks, i + 1, completedTasks, index)

RECURSIVE fillCompleted(_, _, _, _)
\* The second loop of getCompletedTasks, from index i on.  A write at
\* `index` stays inside completedTasks: both loops test the same condition.
fillCompleted(allTasks, i, completedTasks, index) ==
    IF ~(i < Len(allTasks)) THEN completedTasks
    ELSE IF isCompleted(At(allTasks, i))
    THEN fillCompleted(allTasks, i + 1,
                       [completedTasks EXCEPT ![index + 1] = At(allTasks, i)], index + 1)
    ELSE fillCompleted(allTasks, i + 1, completedTasks, index)

\* The body of getCompletedTasks on allTasks = userTasks[msg.sender].
completedTasks(allTasks) ==
    LET completedCount == countCompleted(allTasks, 0)
    IN  fillCompleted(allTasks, 0, [k \in 1 .. completedCount |-> ZeroTask], 0)

getCompletedTasks(sender) ==
    Returned("getCompletedTasks", sender, <<>>, completedTasks(userTasks[sender]))

\* isPending that takes completedAt == 0 for !completed.
isPendingByCompletedAt(task) == task.completedAt = 0 /\ Len(task.content) > 0

\* isPending without the test of the content.
isPendingIgnoresContent(task) == ~task.completed

\* The condition of both loops of getPendingTasks.
isPending(task) == ~task.completed /\ Len(task.content) > 0

RECURSIVE countPending(_, _)
\* The first loop of getPendingTasks, from index i on.
countPending(allTasks, i) ==
    IF ~(i < Len(allTasks)) THEN 0
    ELSE (IF isPending(At(allTasks, i)) THEN 1 ELSE 0) + countPending(allTasks, i + 1)

RECURSIVE fillPending(_, _, _, _)
\* The second loop of getPendingTasks, from index i on.
fillPending(allTasks, i, pendingTasks, index) ==
    IF ~(i < Len(allTasks)) THEN pendingTasks
    ELSE IF isPending(At(allTasks, i))
    THEN fillPending(allTasks, i + 1,
                     [pendingTasks EXCEPT ![index + 1] = At(allTasks, i)], index + 1)
    ELSE fillPending(allTasks, i + 1, pendingTasks, index)

\* The body of getPendingTasks on allTasks = userTasks[msg.sender].
pendingTasks(allTasks) ==
    LET pendingCount == countPending(allTasks, 0)
    IN  fillPending(allTasks, 0, [k \in 1 .. pendingCount |-> ZeroTask], 0)

getPendingTasks(sender) ==
    Returned("getPendingTasks", sender, <<>>, pendingTasks(userTasks[sender]))

\* getTaskCountForUser that reads the count of msg.sender, not of _user.
getTaskCountForUserOfSender(sender, _user) ==
    Returned("getTaskCountForUser", sender, [_user |-> _user], taskCount[sender])

getTaskCountForUser(sender, _user) ==
    Returned("getTaskCountForUser", sender, [_user |-> _user], taskCount[_user])

(***************************************************************************)
(* The chain: a new block carries a later timestamp.                       *)
(***************************************************************************)
NextBlock ==
    /\ steps < MaxSteps
    /\ steps' = steps + 1
    /\ now' = now + 1
    /\ UNCHANGED <<userTasks, taskCount, call, pre, emitted>>
    /\ UNCHANGED clientVars

(***************************************************************************)
(* The specification.  After deployment both mappings are empty: every     *)
(* array has length 0 and every count is 0.                                *)
(***************************************************************************)
Deployed ==
    [fn |-> "constructor", sender |-> "owner", args |-> <<>>, timestamp |-> 1,
     status |-> "success", reason |-> OK, events |-> <<>>]

\* JavaScript's null.
Null == "null"

\* The client before anything happened: the useState initial values, no
\* timer, no asynchronous function in flight.
ClientInit ==
    /\ provider = Null
    /\ signer = Null
    /\ account = Null
    /\ chainId = Null
    /\ network = Null
    /\ contract = Null
    /\ tasks = <<>>
    /\ loading = FALSE
    /\ error = Null
    /\ txPending = FALSE
    /\ txStatus = Null
    /\ rendered = [txPending |-> FALSE]
    /\ timers = 0
    /\ runs = <<>>
    /\ fetches = <<>>

Init ==
    /\ ClientInit
    /\ userTasks = [u \in Users |-> <<>>]
    /\ taskCount = [u \in Users |-> 0]
    /\ now = 1
    /\ steps = 0
    /\ emitted = <<>>
    /\ call = Deployed
    /\ pre = [userTasks |-> [u \in Users |-> <<>>], taskCount |-> [u \in Users |-> 0]]

CreateTask ==
    /\ \E sender \in Users, _content \in Contents : createTask(sender, _content)
    /\ UNCHANGED clientVars

ToggleTask ==
    /\ \E sender \in Users, _taskId \in TaskIds : toggleTask(sender, _taskId)
    /\ UNCHANGED clientVars

UpdateTask ==
    /\ \E sender \in Users, _taskId \in TaskIds, _newContent \in Contents :
            updateTask(sender, _taskId, _newContent)
    /\ UNCHANGED clientVars

DeleteTask ==
    /\ \E sender \in Users, _taskId \in TaskIds : deleteTask(sender, _taskId)
    /\ UNCHANGED clientVars

GetTask ==
    /\ \E sender \in Users, _taskId \in TaskIds : getTask(sender, _taskId)
    /\ UNCHANGED clientVars

GetAllTasks ==
    /\ \E sender \in Users : getAllTasks(sender)
    /\ UNCHANGED clientVars

GetActiveTaskCount ==
    /\ \E sender \in Users : getActiveTaskCount(sender)
    /\ UNCHANGED clientVars

GetCompletedTasks ==
    /\ \E sender \in Users : getCompletedTasks(sender)
    /\ UNCHANGED clientVars

GetPendingTasks ==
    /\ \E sender \in Users : getPendingTasks(sender)
    /\ UNCHANGED clientVars

GetTaskCountForUser ==
    /\ \E sender \in Users, _user \in Users : getTaskCountForUser(sender, _user)
    /\ UNCHANGED clientVars

Next ==
    \/ CreateTask
    \/ ToggleTask
    \/ UpdateTask
    \/ DeleteTask
    \/ GetTask
    \/ GetAllTasks
    \/ GetActiveTaskCount
    \/ GetCompletedTasks
    \/ GetPendingTasks
    \/ GetTaskCountForUser
    \/ NextBlock

Spec == Init /\ [][Next]_vars

\* The chain alone: the transactions and the blocks, without the eth_call
\* reads, which leave no trace on it.
NextTransaction ==
    \/ CreateTask
    \/ ToggleTask
    \/ UpdateTask
    \/ DeleteTask
    \/ NextBlock

SpecTransactions == Init /\ [][NextTransaction]_vars

(***************************************************************************)
(***************************************************************************)
(* A second start: the storage, the log and the last call as they are      *)
(* after owner's createTask("a"); createTask("a") in the first block.  The *)
(* five transactions that delete a task twice fit the bound from here.     *)
(***************************************************************************)
SeedTasks == <<Task(0, "a", FALSE, 1, 0), Task(1, "a", FALSE, 1, 0)>>

InitTwoTasks ==
    /\ ClientInit
    /\ userTasks = [u \in Users |-> IF u = "owner" THEN SeedTasks ELSE <<>>]
    /\ taskCount = [u \in Users |-> IF u = "owner" THEN 2 ELSE 0]
    /\ now = 1
    /\ steps = 0
    /\ emitted = (<<"TaskCreated", "owner", 0>> :> 1) @@ (<<"TaskCreated", "owner", 1>> :> 1)
    /\ call = [fn |-> "createTask", sender |-> "owner", args |-> [_content |-> "a"],
               timestamp |-> 1, status |-> "success", reason |-> OK,
               events |-> <<TaskCreated("owner", 1, "a", 1)>>]
    /\ pre = [userTasks |-> [u \in Users |-> IF u = "owner" THEN <<SeedTasks[1]>> ELSE <<>>],
              taskCount |-> [u \in Users |-> IF u = "owner" THEN 1 ELSE 0]]

SpecTwoTasks == InitTwoTasks /\ [][Next]_vars

(***************************************************************************)
(* Vocabulary of the properties.                                           *)
(***************************************************************************)
\* The indices of the slots of an array whose content is non-empty.
LiveSlots(array) == {i \in Indices(array) : At(array, i).content # ""}

\* The ids of the tasks of a returned Task[].
IdsOf(list) == {list[k].id : k \in 1 .. Len(list)}

\* The last call went to one of the functions that take a task id.
TakesTaskId == call.fn \in {"toggleTask", "updateTask", "deleteTask", "getTask"}

\* The last call addressed a slot that existed when the call began.
InRange == TakesTaskId /\ call.args._taskId < Len(pre.userTasks[call.sender])

\* The slot the last call addressed, as the call found it and as it left it.
SlotBefore == At(pre.userTasks[call.sender], call.args._taskId)
SlotAfter == At(userTasks[call.sender], call.args._taskId)

Succeeded(fn) == call.fn = fn /\ call.status = "success"

RevertedWith(reason) == call.status = "revert" /\ call.reason = reason

StorageUnchanged == userTasks = pre.userTasks /\ taskCount = pre.taskCount

(***************************************************************************)
(* C1.  For every owner the stored live count taskCount[owner] equals the  *)
(* number of slots of the owner's array whose content is non-empty.        *)
(* Violated: createTask("a"); deleteTask(0); updateTask(0, "a") leaves a   *)
(* count of 0 beside one non-empty slot.                                   *)
(***************************************************************************)
C1_CountEqualsLiveSlots ==
    \A u \in Users : taskCount[u] = Cardinality(LiveSlots(userTasks[u]))

(***************************************************************************)
(* C2.  Once a slot's content is empty, every toggleTask, updateTask or    *)
(* deleteTask of its owner on that id is rejected, and the slot's content  *)
(* stays empty whatever is called.                                         *)
(* Violated: toggleTask and updateTask test only the index.                *)
(***************************************************************************)
C2_DeletedSlotRejectsMutation ==
    /\ (InRange /\ call.fn # "getTask" /\ SlotBefore.content = "")
            => call.status # "success"
    /\ \A u \in Users : \A i \in Indices(pre.userTasks[u]) :
            At(pre.userTasks[u], i).content = "" => At(userTasks[u], i).content = ""

(***************************************************************************)
(* C3.  Once deleteTask(id) has succeeded for an owner, neither            *)
(* getCompletedTasks() nor getPendingTasks() of that owner returns a task  *)
(* with that id: not right after the delete, and not after any later call. *)
(* A slot is one that deleteTask succeeded on when its content is empty:   *)
(* nothing else writes the empty string.                                   *)
(* Violated: createTask("a"); deleteTask(0); updateTask(0, "a") brings     *)
(* task 0 back into getCompletedTasks().                                   *)
(***************************************************************************)
C3_DeletedNeverListed ==
    LET Listed(u) == IdsOf(completedTasks(userTasks[u]))
                        \cup IdsOf(pendingTasks(userTasks[u]))
    IN  /\ Succeeded("deleteTask") => call.args._taskId \notin Listed(call.sender)
        /\ \A u \in Users : \A i \in Indices(pre.userTasks[u]) :
                At(pre.userTasks[u], i).content = "" => i \notin Listed(u)

(***************************************************************************)
(* C4.  deleteTask(id) on an in-range slot whose content is already empty  *)
(* reverts with "Task already deleted" and changes neither the slot nor    *)
(* the live count; a successful deleteTask(id) leaves the content empty,   *)
(* so a deleteTask(id) issued right after it fails this way.               *)
(***************************************************************************)
C4_DeleteOfDeletedReverts ==
    /\ (call.fn = "deleteTask" /\ InRange /\ SlotBefore.content = "")
            => /\ RevertedWith(ErrAlreadyDeleted)
               /\ call.events = <<>>
               /\ StorageUnchanged
    /\ Succeeded("deleteTask") => SlotAfter.content = ""

\* A deleteTask was rejected as already deleted, on a slot that a
\* deleteTask emptied.
C4_Witness ==
    /\ call.fn = "deleteTask"
    /\ RevertedWith(ErrAlreadyDeleted)
    /\ SlotAfter.content = ""
    /\ SlotAfter.completed

(***************************************************************************)
(* C5.  The task stored at index i of an owner's array has id i, and no    *)
(* call changes the id of a task or removes a slot.                        *)
(***************************************************************************)
C5_IdIsIndex ==
    \A u \in Users :
        /\ \A i \in Indices(userTasks[u]) : At(userTasks[u], i).id = i
        /\ Len(userTasks[u]) >= Len(pre.userTasks[u])
        /\ \A i \in Indices(pre.userTasks[u]) :
                At(userTasks[u], i).id = At(pre.userTasks[u], i).id

\* An owner created a task after deleting one: the new task's id is the
\* length, not the live count.
C5_Witness ==
    /\ Succeeded("createTask")
    /\ Len(userTasks[call.sender]) = 2
    /\ At(userTasks[call.sender], 0).content = ""
    /\ At(userTasks[call.sender], 1).id = 1

(***************************************************************************)
(* C6.  A call made by one identity leaves every other identity's array    *)
(* and live count as they were, whether it succeeds or fails, and what     *)
(* getTask, getAllTasks, getCompletedTasks, getPendingTasks and            *)
(* getActiveTaskCount return is a function of the caller's own array and   *)
(* count.                                                                  *)
(***************************************************************************)
LiveCompleted(task) == task.completed /\ task.content # ""

LivePending(task) == ~task.completed /\ task.content # ""

C6_Isolation ==
    LET own == userTasks[call.sender]
    IN  /\ \A u \in Users \ {call.sender} :
                userTasks[u] = pre.userTasks[u] /\ taskCount[u] = pre.taskCount[u]
        /\ Succeeded("getTask") => call.ret = At(own, call.args._taskId)
        /\ Succeeded("getAllTasks") => call.ret = own
        /\ Succeeded("getCompletedTasks") => call.ret = SelectSeq(own, LiveCompleted)
        /\ Succeeded("getPendingTasks") => call.ret = SelectSeq(own, LivePending)
        /\ Succeeded("getActiveTaskCount") => call.ret = taskCount[call.sender]

\* user1 changed its own slot 0 while owner holds a slot 0 with other content.
C6_Witness ==
    /\ Succeeded("updateTask")
    /\ call.sender = "user1"
    /\ Len(userTasks["owner"]) >= 1
    /\ At(userTasks["owner"], 0).content # ""
    /\ At(userTasks["owner"], 0).content # At(userTasks["user1"], 0).content

(***************************************************************************)
(* C7.  Every task with non-empty content has completedAt > 0 exactly when *)
(* completed is true (block timestamps are positive).                      *)
(* Violated: createTask("a"); deleteTask(0); updateTask(0, "a") leaves a   *)
(* non-empty slot with completed = true and completedAt = 0.               *)
(***************************************************************************)
C7_CompletedAtIffCompleted ==
    \A u \in Users : \A i \in LiveSlots(userTasks[u]) :
        (At(userTasks[u], i).completedAt > 0) <=> At(userTasks[u], i).completed

(***************************************************************************)
(* C8.  When toggleTask(id) has just succeeded on a task that was live,    *)
(* and the next transaction is a toggleTask(id) of the same owner that     *)
(* succeeds too, the task's completed flag is what it was before the first *)
(* of the two, and its content, id and createdAt and the owner's live      *)
(* count are what they were.                                               *)
(***************************************************************************)
C8_ToggleTwiceRestores ==
    [][ ( /\ Succeeded("toggleTask")
          /\ SlotBefore.content # ""
          /\ now' = now /\ steps' = steps + 1
          /\ call'.fn = "toggleTask"
          /\ call'.status = "success"
          /\ call'.sender = call.sender
          /\ call'.args._taskId = call.args._taskId )
        => LET first == SlotBefore
               last == At(userTasks'[call.sender], call.args._taskId)
           IN  /\ last.completed = first.completed
               /\ last.content = first.content
               /\ last.id = first.id
               /\ last.createdAt = first.createdAt
               /\ taskCount'[call.sender] = pre.taskCount[call.sender] ]_vars

\* A successful toggleTask found a live task completed, with the completedAt
\* that only an earlier toggleTask writes, and left it not completed.
C8_Witness ==
    /\ Succeeded("toggleTask")
    /\ SlotBefore.content # ""
    /\ SlotBefore.completed
    /\ SlotBefore.completedAt > 0
    /\ ~SlotAfter.completed
    /\ SlotAfter.completedAt = 0

(***************************************************************************)
(* C9.  createTask(content), and updateTask(id, content) with an id in     *)
(* range, succeed exactly when content has 1 to 500 bytes; with 0 bytes    *)
(* they revert with "Content cannot be empty", with more than 500 with     *)
(* "Content too long (max 500 chars)"; so a successful create or update    *)
(* stores content of 1 to 500 bytes.                                       *)
(***************************************************************************)
C9_ContentBounds ==
    LET content == IF call.fn = "createTask" THEN call.args._content
                   ELSE call.args._newContent
        written == IF call.fn = "createTask"
                   THEN At(userTasks[call.sender], Len(userTasks[call.sender]) - 1)
                   ELSE SlotAfter
    IN  (call.fn = "createTask" \/ (call.fn = "updateTask" /\ InRange))
            => /\ call.status = "success" <=> (Len(content) >= 1 /\ Len(content) <= 500)
               /\ Len(content) = 0 => RevertedWith(ErrEmpty)
               /\ Len(content) > 500 => RevertedWith(ErrTooLong)
               /\ call.status = "success"
                    => written.content = content /\ Len(written.content) \in 1 .. 500

\* A one-byte content and a 500-byte content are stored, and an updateTask
\* with 501 bytes has just been rejected.
C9_Witness ==
    /\ call.fn = "updateTask"
    /\ InRange
    /\ Len(call.args._newContent) = 501
    /\ RevertedWith(ErrTooLong)
    /\ \E u \in Users : \E i \in Indices(userTasks[u]) : Len(At(userTasks[u], i).content) = 500
    /\ \E u \in Users : \E i \in Indices(userTasks[u]) : Len(At(userTasks[u], i).content) = 1

(***************************************************************************)
(* C10.  toggleTask, updateTask, deleteTask and getTask with an id greater *)
(* than or equal to the length of the caller's own array revert with       *)
(* "Task does not exist", whatever the other arrays hold.                  *)
(***************************************************************************)
C10_TaskNotFound ==
    (TakesTaskId /\ call.args._taskId >= Len(pre.userTasks[call.sender]))
        => /\ RevertedWith(ErrTaskNotFound)
           /\ StorageUnchanged

\* user1, with one slot, was refused id 1 while owner holds a slot 1.
C10_Witness ==
    /\ call.fn = "toggleTask"
    /\ call.sender = "user1"
    /\ call.args._taskId = 1
    /\ Len(userTasks["user1"]) = 1
    /\ Len(userTasks["owner"]) = 2
    /\ RevertedWith(ErrTaskNotFound)

(***************************************************************************)
(* C11.  A call that reverts with one of the four reason strings leaves    *)
(* both mappings and the event log as they were and logs no event; and the *)
(* same call by the same sender, made next in that unchanged storage (the  *)
(* timestamp may have advanced), reverts with the same reason.             *)
(***************************************************************************)
C11_RejectedCallChangesNothing ==
    [][ /\ call'.status = "revert"
            => /\ userTasks' = userTasks
               /\ taskCount' = taskCount
               /\ emitted' = emitted
               /\ call'.events = <<>>
               /\ pre' = Storage \/ call' = call
        /\ ( /\ call.status = "revert"
             /\ call'.fn = call.fn
             /\ call'.sender = call.sender
             /\ call'.args = call.args )
            => /\ call'.status = "revert"
               /\ call'.reason = call.reason ]_vars

\* deleteTask of a deleted slot was rejected while the caller's count was
\* positive, and the timestamp has advanced since.
C11_Witness ==
    /\ call.fn = "deleteTask"
    /\ RevertedWith(ErrAlreadyDeleted)
    /\ taskCount[call.sender] > 0
    /\ now > call.timestamp

(***************************************************************************)
(* C12.  A successful createTask(content) appends exactly one task to the  *)
(* caller's array: id the previous length, the given content, completed    *)
(* false, createdAt the timestamp of the call, completedAt 0.  The         *)
(* caller's count grows by 1, no task that existed changes, nothing of     *)
(* another user changes, and the one event logged is                       *)
(* TaskCreated(caller, id, content, timestamp).                            *)
(***************************************************************************)
C12_CreateAppendsOne ==
    Succeeded("createTask") =>
        LET owner == call.sender
            before == pre.userTasks[owner]
            id == Len(before)
        IN  /\ userTasks[owner] =
                    Append(before, [id |-> id, content |-> call.args._content,
                                    completed |-> FALSE, createdAt |-> call.timestamp,
                                    completedAt |-> 0])
            /\ taskCount[owner] = pre.taskCount[owner] + 1
            /\ \A u \in Users \ {owner} :
                    /\ userTasks[u] = pre.userTasks[u]
                    /\ taskCount[u] = pre.taskCount[u]
            /\ call.events = <<[name |-> "TaskCreated", user |-> owner, taskId |-> id,
                                content |-> call.args._content,
                                timestamp |-> call.timestamp]>>

\* A second task was created, after the timestamp had advanced.
C12_Witness ==
    /\ Succeeded("createTask")
    /\ Len(pre.userTasks[call.sender]) = 1
    /\ Len(userTasks[call.sender]) = 2
    /\ call.timestamp > 1

(***************************************************************************)
(* C13.  A successful toggleTask(id) flips the completed flag of the slot. *)
(* From false to true it sets completedAt to the timestamp of the call and *)
(* logs TaskCompleted; from true to false it sets completedAt to 0 and     *)
(* logs TaskUncompleted.  It logs exactly one event.                       *)
(***************************************************************************)
C13_ToggleFlipsAndLogs ==
    Succeeded("toggleTask") =>
        /\ SlotAfter.completed = ~SlotBefore.completed
        /\ Len(call.events) = 1
        /\ ~SlotBefore.completed
            => /\ SlotAfter.completedAt = call.timestamp
               /\ call.events[1] = [name |-> "TaskCompleted", user |-> call.sender,
                                    taskId |-> call.args._taskId,
                                    timestamp |-> call.timestamp]
        /\ SlotBefore.completed
            => /\ SlotAfter.completedAt = 0
               /\ call.events[1] = [name |-> "TaskUncompleted", user |-> call.sender,
                                    taskId |-> call.args._taskId,
                                    timestamp |-> call.timestamp]

\* A toggle took a live task back from completed to not completed and logged
\* TaskUncompleted.
C13_Witness ==
    /\ Succeeded("toggleTask")
    /\ SlotBefore.content # ""
    /\ SlotBefore.completed
    /\ ~SlotAfter.completed
    /\ call.events[1].name = "TaskUncompleted"

(***************************************************************************)
(* C14.  A successful updateTask(id, newContent) replaces the content of   *)
(* slot id of the caller and nothing else: the slot's id, completed,       *)
(* createdAt and completedAt, the other slots, the length of the array,    *)
(* the caller's count and everything of the other users stay as they were. *)
(***************************************************************************)
C14_UpdateChangesOnlyContent ==
    Succeeded("updateTask") =>
        /\ userTasks = [pre.userTasks EXCEPT
                            ![call.sender][call.args._taskId + 1].content =
                                call.args._newContent]
        /\ taskCount = pre.taskCount

\* The content of a completed task was replaced by a different one, in an
\* array of two slots.
C14_Witness ==
    /\ Succeeded("updateTask")
    /\ Len(userTasks[call.sender]) = 2
    /\ SlotBefore.completed
    /\ SlotBefore.completedAt > 0
    /\ SlotBefore.content # ""
    /\ SlotAfter.content # SlotBefore.content

(***************************************************************************)
(* C15.  A successful deleteTask(id) sets the content of slot id to the    *)
(* empty string and its completed flag to true, keeps the slot's id,       *)
(* createdAt and completedAt, keeps the other slots and the length of the  *)
(* array, and lowers the caller's count by 1.  Deleting the pending task   *)
(* of an array that also holds a completed one leaves a count of 1, no     *)
(* pending task and the completed one.                                     *)
(***************************************************************************)
C15_DeleteMarksSlot ==
    Succeeded("deleteTask") =>
        /\ userTasks = [pre.userTasks EXCEPT
                            ![call.sender][call.args._taskId + 1] =
                                [@ EXCEPT !.content = "", !.completed = TRUE]]
        /\ taskCount = [pre.taskCount EXCEPT ![call.sender] = @ - 1]
        /\ taskCount[call.sender] >= 0

\* Task 1, pending, was deleted beside the completed task 0: the count is 1,
\* nothing is pending, and task 0 is the one completed task.
C15_Witness ==
    /\ Succeeded("deleteTask")
    /\ call.args._taskId = 1
    /\ ~SlotBefore.completed
    /\ SlotBefore.completedAt = 0
    /\ SlotAfter.completed
    /\ SlotAfter.completedAt = 0
    /\ taskCount[call.sender] = 1
    /\ pendingTasks(userTasks[call.sender]) = <<>>
    /\ IdsOf(completedTasks(userTasks[call.sender])) = {0}

(***************************************************************************)
(* C16.  getCompletedTasks() returns exactly the caller's tasks that are   *)
(* completed and have non-empty content: every element returned is such a  *)
(* slot of the caller, every such slot is returned, and the ids ascend     *)
(* strictly, so none comes twice.                                          *)
(***************************************************************************)
C16_CompletedExactlyLiveCompleted ==
    Succeeded("getCompletedTasks") =>
        LET own == userTasks[call.sender]
            ret == call.ret
        IN  /\ \A k \in 1 .. Len(ret) :
                    /\ ret[k].id \in Indices(own)
                    /\ ret[k] = At(own, ret[k].id)
                    /\ ret[k].completed
                    /\ ret[k].content # ""
            /\ \A i \in Indices(own) :
                    (At(own, i).completed /\ At(own, i).content # "")
                        => \E k \in 1 .. Len(ret) : ret[k] = At(own, i)
            /\ \A k \in 1 .. Len(ret) - 1 : ret[k].id < ret[k + 1].id

\* Both tasks of the caller are completed and were returned, 0 before 1.
C16_Witness ==
    /\ Succeeded("getCompletedTasks")
    /\ Len(call.ret) = 2
    /\ call.ret[1].id = 0
    /\ call.ret[2].id = 1

(***************************************************************************)
(* C17.  getPendingTasks() returns exactly the caller's tasks that are not *)
(* completed and have non-empty content: every element returned is such a  *)
(* slot of the caller, every such slot is returned, and the ids ascend     *)
(* strictly, so none comes twice.                                          *)
(***************************************************************************)
C17_PendingExactlyLivePending ==
    Succeeded("getPendingTasks") =>
        LET own == userTasks[call.sender]
            ret == call.ret
        IN  /\ \A k \in 1 .. Len(ret) :
                    /\ ret[k].id \in Indices(own)
                    /\ ret[k] = At(own, ret[k].id)
                    /\ ~ret[k].completed
                    /\ ret[k].content # ""
            /\ \A i \in Indices(own) :
                    (~At(own, i).completed /\ At(own, i).content # "")
                        => \E k \in 1 .. Len(ret) : ret[k] = At(own, i)
            /\ \A k \in 1 .. Len(ret) - 1 : ret[k].id < ret[k + 1].id

\* The caller holds a completed task 0 and a pending task 1, and task 1
\* alone was returned.
C17_Witness ==
    /\ Succeeded("getPendingTasks")
    /\ Len(userTasks[call.sender]) = 2
    /\ At(userTasks[call.sender], 0).completed
    /\ At(userTasks[call.sender], 0).content # ""
    /\ Len(call.ret) = 1
    /\ call.ret[1].id = 1

RECURSIVE SumOver(_, _)
\* The sum of the counts a log summary holds under the given keys.
SumOver(bag, keys) ==
    IF keys = {} THEN 0
    ELSE LET k == CHOOSE x \in keys : TRUE
         IN  bag[k] + SumOver(bag, keys \ {k})

\* The number of events of a name logged for a user since deployment.
Logged(name, user) ==
    SumOver(emitted, {k \in DOMAIN emitted : k[1] = name /\ k[2] = user})

(***************************************************************************)
(* C18.  getAllTasks() returns the caller's whole array, slots with empty  *)
(* content included, with ids 0, 1, 2, ... in order.  The length of every  *)
(* user's array is the number of createTask calls of that user that        *)
(* succeeded (one TaskCreated each), and a successful deleteTask leaves it *)
(* as it was.                                                              *)
(***************************************************************************)
C18_AllTasksIsWholeArray ==
    /\ \A u \in Users : Len(userTasks[u]) = Logged("TaskCreated", u)
    /\ Succeeded("deleteTask")
            => Len(userTasks[call.sender]) = Len(pre.userTasks[call.sender])
    /\ Succeeded("getAllTasks")
            => /\ call.ret = userTasks[call.sender]
               /\ Len(call.ret) = Logged("TaskCreated", call.sender)
               /\ \A k \in 1 .. Len(call.ret) : call.ret[k].id = k - 1

\* Two createTask calls and one deleteTask succeeded for the caller, and
\* getAllTasks returned both slots, the deleted one among them.
C18_Witness ==
    /\ Succeeded("getAllTasks")
    /\ Logged("TaskCreated", call.sender) = 2
    /\ Logged("TaskDeleted", call.sender) = 1
    /\ Len(call.ret) = 2
    /\ \E k \in 1 .. 2 : call.ret[k].content = ""

\* The last call was one of the three list queries.
ListQuery == call.fn \in {"getAllTasks", "getCompletedTasks", "getPendingTasks"}

(***************************************************************************)
(* C19, as the spec states it.  No task with empty content is in the       *)
(* result of getAllTasks(), getCompletedTasks() or getPendingTasks().      *)
(* Violated: createTask("a"); deleteTask(0); getAllTasks() returns the     *)
(* slot with the empty content.                                            *)
(***************************************************************************)
C19_NoEmptyContentInAnyList ==
    (ListQuery /\ call.status = "success")
        => \A k \in 1 .. Len(call.ret) : call.ret[k].content # ""

(***************************************************************************)
(* C19, amended.  No task with empty content is in the result of           *)
(* getCompletedTasks() or getPendingTasks(), whatever the caller's array   *)
(* holds; getAllTasks() returns every slot with empty content of the       *)
(* caller's array.                                                         *)
(***************************************************************************)
C19_NoEmptyContentInFilteredLists ==
    /\ \A u \in Users :
            \A k \in 1 .. Len(completedTasks(userTasks[u])) :
                completedTasks(userTasks[u])[k].content # ""
    /\ \A u \in Users :
            \A k \in 1 .. Len(pendingTasks(userTasks[u])) :
                pendingTasks(userTasks[u])[k].content # ""
    /\ (ListQuery /\ call.fn # "getAllTasks" /\ call.status = "success")
            => \A k \in 1 .. Len(call.ret) : call.ret[k].content # ""
    /\ Succeeded("getAllTasks")
            => \A i \in Indices(userTasks[call.sender]) :
                    At(userTasks[call.sender], i).content = ""
                        => \E k \in 1 .. Len(call.ret) :
                                call.ret[k].id = i /\ call.ret[k].content = ""

\* getCompletedTasks returned nothing for a caller whose one slot is a
\* deleted one, with its completed flag set by the delete.
C19_Witness ==
    /\ Succeeded("getCompletedTasks")
    /\ call.ret = <<>>
    /\ Len(userTasks[call.sender]) = 1
    /\ At(userTasks[call.sender], 0).content = ""
    /\ At(userTasks[call.sender], 0).completed

(***************************************************************************)
(* C20.  getTask(id) with an id inside the caller's array succeeds and     *)
(* returns the slot as stored, a slot with empty content included.         *)
(***************************************************************************)
C20_GetTaskReturnsRawSlot ==
    (call.fn = "getTask" /\ InRange)
        => /\ call.status = "success"
           /\ call.ret = SlotBefore
           /\ call.ret = At(userTasks[call.sender], call.args._taskId)

\* getTask returned a deleted slot: empty content, completed set, the id and
\* the createdAt of the task it was.
C20_Witness ==
    /\ Succeeded("getTask")
    /\ call.args._taskId = 1
    /\ call.ret.content = ""
    /\ call.ret.completed
    /\ call.ret.id = 1
    /\ call.ret.createdAt > 0

C22_DeletedAtMostOnce ==
    \A k \in DOMAIN emitted : k[1] = "TaskDeleted" => emitted[k] <= 1

(***************************************************************************)
(* C23.  createTask sets the createdAt of the task it appends to the       *)
(* timestamp of the call, and no call changes the createdAt of a slot that *)
(* exists: not toggleTask, not updateTask, not deleteTask.                 *)
(***************************************************************************)
C23_CreatedAtFixed ==
    /\ \A u \in Users : \A i \in Indices(pre.userTasks[u]) :
            /\ i \in Indices(userTasks[u])
            /\ At(userTasks[u], i).createdAt = At(pre.userTasks[u], i).createdAt
    /\ Succeeded("createTask")
            => At(userTasks[call.sender], Len(pre.userTasks[call.sender])).createdAt
                    = call.timestamp
    /\ \A u \in Users : \A i \in Indices(userTasks[u]) :
            /\ At(userTasks[u], i).createdAt >= 1
            /\ At(userTasks[u], i).createdAt <= now

\* A task created at an earlier timestamp was completed, then deleted, and
\* still carries the timestamp of its creation.
C23_Witness ==
    /\ Succeeded("deleteTask")
    /\ SlotBefore.completedAt > SlotBefore.createdAt
    /\ SlotAfter.createdAt = SlotBefore.createdAt
    /\ SlotAfter.createdAt < call.timestamp

\* The calls of a user that write: function, sender and arguments.
MutatingCalls(u) ==
    {[fn |-> "createTask", sender |-> u, args |-> [_content |-> c]] : c \in Contents}
    \cup {[fn |-> f, sender |-> u, args |-> [_taskId |-> i]] :
                f \in {"toggleTask", "deleteTask"}, i \in TaskIds}
    \cup {[fn |-> "updateTask", sender |-> u,
           args |-> [_taskId |-> i, _newContent |-> c]] : i \in TaskIds, c \in Contents}

\* The calls of a user that can fail: the mutating ones and getTask.
FallibleCalls(u) ==
    MutatingCalls(u)
    \cup {[fn |-> "getTask", sender |-> u, args |-> [_taskId |-> i]] : i \in TaskIds}

\* How a call made in this state ends: OK, a revert reason or a panic code.
Outcome(c) ==
    CASE c.fn = "getTask" ->
            IF validTaskId(c.sender, c.args._taskId) THEN OK ELSE ErrTaskNotFound
      [] c.fn = "createTask" -> nonEmptyContent(c.args._content)
      [] c.fn = "toggleTask" ->
            IF validTaskId(c.sender, c.args._taskId) THEN OK ELSE ErrTaskNotFound
      [] c.fn = "updateTask" ->
            updateTaskCheck(c.sender, c.args._taskId, c.args._newContent)
      [] c.fn = "deleteTask" ->
            IF deleteTaskCheck(c.sender, c.args._taskId) # OK
            THEN deleteTaskCheck(c.sender, c.args._taskId)
            ELSE IF Underflows(taskCount[c.sender]) THEN PanicArithmetic ELSE OK

\* The storage a mutating call made in this state leaves.
Effect(c) ==
    IF Outcome(c) # OK THEN Storage
    ELSE CASE c.fn = "createTask" -> createTaskWrites(c.sender, c.args._content)
           [] c.fn = "toggleTask" -> toggleTaskWrites(c.sender, c.args._taskId)
           [] c.fn = "updateTask" ->
                updateTaskWrites(c.sender, c.args._taskId, c.args._newContent)
           [] c.fn = "deleteTask" -> deleteTaskWrites(c.sender, c.args._taskId)

\* What a storage holds for one user.
PartOf(storage, u) == <<storage.userTasks[u], storage.taskCount[u]>>

(***************************************************************************)
(* C24.  Two calls of different users commute.  Whenever a transaction c1  *)
(* of user u writes, every call c2 of another user v ends after c1 as it   *)
(* would have ended before c1 (same success, same revert reason),          *)
(* and the storage after c1 then c2 holds c1's result for u and, for v,    *)
(* what c2 made before c1 would have written: the storage of the other     *)
(* order.  Outcome and Effect are the outcome and the storage of the step  *)
(* itself, for every mutating call that is made.                           *)
(***************************************************************************)
C24_DistinctOwnersCommute ==
    [][ (pre' = Storage /\ call' # call
            /\ call'.fn \in {"createTask", "toggleTask", "updateTask", "deleteTask"})
        => LET c1 == [fn |-> call'.fn, sender |-> call'.sender, args |-> call'.args]
               u == c1.sender
           IN  /\ call'.reason = Outcome(c1)
               /\ Storage' = Effect(c1)
               /\ Storage' # Storage
                    => \A v \in Users \ {u} :
                        /\ PartOf(Storage', v) = PartOf(Storage, v)
                        /\ \A c2 \in FallibleCalls(v) : Outcome(c2)' = Outcome(c2)
                        /\ \A c2 \in MutatingCalls(v) :
                            LET before == Effect(c2)
                                after == Effect(c2)'
                            IN  /\ PartOf(after, v) = PartOf(before, v)
                                /\ PartOf(after, u) = PartOf(Storage', u)
                                /\ PartOf(before, u) = PartOf(Storage, u) ]_vars

\* user1 deleted its own task 0 after owner had created two tasks: the
\* calls of both users have written, and ids 0 and 1 mean different slots
\* to each.
C24_Witness ==
    /\ Succeeded("deleteTask")
    /\ call.sender = "user1"
    /\ Len(userTasks["user1"]) = 1
    /\ Len(userTasks["owner"]) = 2
    /\ taskCount["owner"] = 2

\* The last call was a transaction: one of the four functions that write.
Mutating == call.fn \in {"createTask", "toggleTask", "updateTask", "deleteTask"}

\* The task id a successful mutating call is about.
AffectedId ==
    IF call.fn = "createTask" THEN Len(pre.userTasks[call.sender])
    ELSE call.args._taskId

(***************************************************************************)
(* C25.  A mutating call that succeeds logs exactly one event: TaskCreated *)
(* for createTask, TaskCompleted or TaskUncompleted for toggleTask,        *)
(* TaskUpdated for updateTask, TaskDeleted for deleteTask.  The event      *)
(* carries the caller, the id of the task written and the timestamp of the *)
(* call, and it tells the slot as the call left it.  A call that does not  *)
(* succeed logs nothing.  (A transaction commits its writes and its events *)
(* together; the order of the two inside the transaction is not a state.)  *)
(***************************************************************************)
C25_OneEventPerMutation ==
    /\ call.status # "success" => call.events = <<>>
    /\ (Mutating /\ call.status = "success")
            => /\ Len(call.events) = 1
               /\ call.events[1].user = call.sender
               /\ call.events[1].taskId = AffectedId
               /\ call.events[1].timestamp = call.timestamp
               /\ <<call.events[1].name, call.sender, AffectedId>> \in DOMAIN emitted
               /\ LET e == call.events[1]
                      slot == At(userTasks[call.sender], AffectedId)
                  IN  CASE call.fn = "createTask" ->
                                e.name = "TaskCreated" /\ e.content = slot.content
                        [] call.fn = "toggleTask" ->
                                e.name = IF slot.completed THEN "TaskCompleted"
                                         ELSE "TaskUncompleted"
                        [] call.fn = "updateTask" ->
                                e.name = "TaskUpdated" /\ e.newContent = slot.content
                        [] call.fn = "deleteTask" ->
                                e.name = "TaskDeleted" /\ slot.content = ""

\* The second task of a user was created and logged with id 1.
C25_Witness ==
    /\ Succeeded("createTask")
    /\ call.events[1].name = "TaskCreated"
    /\ call.events[1].taskId = 1
    /\ Len(userTasks[call.sender]) = 2

(***************************************************************************)
(* C26.  A user for whom no createTask has succeeded has an empty array    *)
(* and a count of 0: getAllTasks(), getCompletedTasks() and                *)
(* getPendingTasks() return the empty list, getActiveTaskCount() returns   *)
(* 0, and createTask with content of 1 to 500 bytes succeeds as the user's *)
(* first call.                                                             *)
(***************************************************************************)
C26_FreshUserIsEmpty ==
    /\ \A u \in Users :
            Logged("TaskCreated", u) = 0
                => /\ userTasks[u] = <<>>
                   /\ taskCount[u] = 0
                   /\ completedTasks(userTasks[u]) = <<>>
                   /\ pendingTasks(userTasks[u]) = <<>>
    /\ (Logged("TaskCreated", call.sender) = 0 /\ call.fn # "constructor")
            => /\ ListQuery => Succeeded(call.fn) /\ call.ret = <<>>
               /\ call.fn = "getActiveTaskCount" => call.ret = 0
    /\ (call.fn = "createTask" /\ pre.userTasks[call.sender] = <<>>
            /\ Len(call.args._content) \in 1 .. 500)
            => /\ call.status = "success"
               /\ Logged("TaskCreated", call.sender) = 1

\* user1's first call of all was a createTask, made when owner already held
\* a task, and it succeeded with id 0.
C26_Witness ==
    /\ Succeeded("createTask")
    /\ call.sender = "user1"
    /\ pre.userTasks["user1"] = <<>>
    /\ Len(userTasks["owner"]) >= 1
    /\ At(userTasks["user1"], 0).id = 0
    /\ \A k \in DOMAIN emitted : k[2] = "user1" => k = <<"TaskCreated", "user1", 0>>

\* The last call was updateTask, with content of 1 to 500 bytes, on a slot
\* of the caller whose content was empty.
UpdateOfDeleted ==
    /\ call.fn = "updateTask"
    /\ InRange
    /\ SlotBefore.content = ""
    /\ Len(call.args._newContent) \in 1 .. 500

(***************************************************************************)
(* C27, as the spec states it.  updateTask(id, newContent) with content of *)
(* 1 to 500 bytes on a deleted slot succeeds, the slot's content is        *)
(* newContent, the caller's count is as before, and the task is among the  *)
(* caller's getCompletedTasks().                                           *)
(* Violated: createTask("a"); deleteTask(0); toggleTask(0);                *)
(* updateTask(0, "a") brings task 0 back as a pending task.                *)
(***************************************************************************)
C27_UpdateResurrectsAsCompleted ==
    UpdateOfDeleted
        => /\ call.status = "success"
           /\ SlotAfter.content = call.args._newContent
           /\ taskCount = pre.taskCount
           /\ call.args._taskId \in IdsOf(completedTasks(userTasks[call.sender]))

(***************************************************************************)
(* C27, amended.  updateTask(id, newContent) with content of 1 to 500      *)
(* bytes on a deleted slot succeeds, the slot's content is newContent and  *)
(* the caller's count is as before.  The task is again among the caller's  *)
(* getCompletedTasks() when the slot's completed flag is true, as          *)
(* deleteTask left it, and among the caller's getPendingTasks() when a     *)
(* toggleTask of the deleted slot had made it false.                       *)
(***************************************************************************)
C27_UpdateResurrects ==
    UpdateOfDeleted
        => LET id == call.args._taskId
               completed == IdsOf(completedTasks(userTasks[call.sender]))
               pending == IdsOf(pendingTasks(userTasks[call.sender]))
           IN  /\ call.status = "success"
               /\ SlotAfter.content = call.args._newContent
               /\ SlotAfter.completed = SlotBefore.completed
               /\ taskCount = pre.taskCount
               /\ SlotBefore.completed => id \in completed /\ id \notin pending
               /\ ~SlotBefore.completed => id \in pending /\ id \notin completed

\* The one task of the caller was deleted and came back by updateTask: it
\* is listed as completed, and the count is 0.
C27_Witness ==
    /\ UpdateOfDeleted
    /\ call.status = "success"
    /\ Logged("TaskDeleted", call.sender) = 1
    /\ Len(userTasks[call.sender]) = 1
    /\ IdsOf(completedTasks(userTasks[call.sender])) = {0}
    /\ taskCount[call.sender] = 0

(***************************************************************************)
(* C28.  toggleTask(id) on a deleted slot succeeds and flips the slot's    *)
(* completed flag while the content stays empty, so that the slot is in    *)
(* neither getCompletedTasks() nor getPendingTasks().  On the flag as      *)
(* deleteTask left it, true, the call makes it false and logs              *)
(* TaskUncompleted.                                                        *)
(***************************************************************************)
C28_ToggleOfDeletedSucceeds ==
    (call.fn = "toggleTask" /\ InRange /\ SlotBefore.content = "")
        => LET id == call.args._taskId
               own == userTasks[call.sender]
           IN  /\ call.status = "success"
               /\ SlotAfter.completed = ~SlotBefore.completed
               /\ SlotAfter.content = ""
               /\ id \notin IdsOf(completedTasks(own)) \cup IdsOf(pendingTasks(own))
               /\ taskCount = pre.taskCount
               /\ SlotBefore.completed
                    => /\ ~SlotAfter.completed
                       /\ SlotAfter.completedAt = 0
                       /\ call.events = <<TaskUncompleted(call.sender, id, call.timestamp)>>

\* A deleted slot, never toggled before or since its deletion, was toggled.
C28_Witness ==
    /\ Succeeded("toggleTask")
    /\ SlotBefore.content = ""
    /\ SlotBefore.completed
    /\ ~SlotAfter.completed
    /\ Logged("TaskDeleted", call.sender) = 1
    /\ Logged("TaskUncompleted", call.sender) = 1
    /\ Logged("TaskCompleted", call.sender) = 0

(***************************************************************************)
(* C29.  Whenever some slot of a user has non-empty content the user's     *)
(* count is at least 1, so that deleteTask(id) with id in range and        *)
(* non-empty content in the slot succeeds: it fails for no other reason    *)
(* than "Task does not exist" and "Task already deleted".                  *)
(* Violated: createTask("a"); deleteTask(0); updateTask(0, "a") leaves a   *)
(* non-empty slot beside a count of 0, and deleteTask(0) then fails with   *)
(* Panic(0x11) on taskCount[msg.sender]--.                                 *)
(***************************************************************************)
C29_DeleteOfLiveSucceeds ==
    /\ \A u \in Users : LiveSlots(userTasks[u]) # {} => taskCount[u] >= 1
    /\ (call.fn = "deleteTask" /\ InRange /\ SlotBefore.content # "")
            => call.status = "success"
    /\ (call.fn = "deleteTask" /\ call.status # "success")
            => call.reason \in {ErrTaskNotFound, ErrAlreadyDeleted}

(***************************************************************************)
(* C30.  The array of a user only grows at its end.  Its length never      *)
(* decreases; it changes only by a successful createTask of that user, by  *)
(* exactly 1; and toggleTask, updateTask and deleteTask leave every slot   *)
(* at its index, with its id.                                              *)
(***************************************************************************)
C30_AppendOnly ==
    \A u \in Users :
        LET before == pre.userTasks[u]
            after == userTasks[u]
        IN  /\ Len(after) >= Len(before)
            /\ Len(after) # Len(before)
                    => /\ Succeeded("createTask")
                       /\ call.sender = u
                       /\ Len(after) = Len(before) + 1
            /\ (Succeeded("createTask") /\ call.sender = u)
                    => SubSeq(after, 1, Len(before)) = before
            /\ \A i \in Indices(before) : At(after, i).id = At(before, i).id
            /\ \A i \in Indices(after) : At(after, i).id = i

\* Slot 0 of two was deleted: both slots are where they were.
C30_Witness ==
    /\ Succeeded("deleteTask")
    /\ call.args._taskId = 0
    /\ Len(pre.userTasks[call.sender]) = 2
    /\ Len(userTasks[call.sender]) = 2
    /\ At(userTasks[call.sender], 1) = At(pre.userTasks[call.sender], 1)

(***************************************************************************)
(* C31.  For every user, in every state, getCompletedTasks() and           *)
(* getPendingTasks() have no task in common and together hold exactly the  *)
(* user's slots with non-empty content: the sum of their lengths is the    *)
(* number of those slots.                                                  *)
(***************************************************************************)
C31_CompletedAndPendingPartitionLive ==
    \A u \in Users :
        LET completed == completedTasks(userTasks[u])
            pending == pendingTasks(userTasks[u])
        IN  /\ IdsOf(completed) \cap IdsOf(pending) = {}
            /\ IdsOf(completed) \cup IdsOf(pending) = LiveSlots(userTasks[u])
            /\ Len(completed) + Len(pending) = Cardinality(LiveSlots(userTasks[u]))
            /\ \A k \in 1 .. Len(completed) :
                    completed[k] = At(userTasks[u], completed[k].id)
            /\ \A k \in 1 .. Len(pending) :
                    pending[k] = At(userTasks[u], pending[k].id)

\* A user holds a task brought back by updateTask after its deletion, with
\* completed true and completedAt 0, beside a pending task: one task in
\* each list.
C31_Witness ==
    \E u \in Users :
        /\ Len(userTasks[u]) = 2
        /\ At(userTasks[u], 0).content # ""
        /\ At(userTasks[u], 0).completed
        /\ At(userTasks[u], 0).completedAt = 0
        /\ IdsOf(completedTasks(userTasks[u])) = {0}
        /\ IdsOf(pendingTasks(userTasks[u])) = {1}

\* The number of events of a name logged for a user and a task id.
LoggedFor(name, user, taskId) ==
    IF <<name, user, taskId>> \in DOMAIN emitted
    THEN emitted[<<name, user, taskId>>]
    ELSE 0

(***************************************************************************)
(* C32.  For every user and task id the TaskCompleted and TaskUncompleted  *)
(* events alternate, TaskCompleted first: at every moment the number of    *)
(* TaskCompleted events logged is the number of TaskUncompleted events or  *)
(* one more, and it is one more exactly when the stored completed flag of  *)
(* a slot with non-empty content is true.                                  *)
(* Violated: createTask("a"); deleteTask(0); toggleTask(0) logs            *)
(* TaskUncompleted for a task that never logged TaskCompleted.             *)
(***************************************************************************)
C32_CompletionEventsAlternate ==
    \A u \in Users : \A i \in Indices(userTasks[u]) :
        LET done == LoggedFor("TaskCompleted", u, i)
            undone == LoggedFor("TaskUncompleted", u, i)
        IN  /\ done - undone \in {0, 1}
            /\ At(userTasks[u], i).content # ""
                    => (At(userTasks[u], i).completed <=> done - undone = 1)

(***************************************************************************)
(* C33.  updateTask with an id out of range fails with "Task does not      *)
(* exist" whatever the content, empty or longer than 500 bytes included;   *)
(* with an id in range, and in createTask, empty content fails with        *)
(* "Content cannot be empty" and content longer than 500 bytes with        *)
(* "Content too long (max 500 chars)".                                     *)
(***************************************************************************)
C33_IdCheckedBeforeContent ==
    /\ (call.fn = "updateTask" /\ ~InRange) => RevertedWith(ErrTaskNotFound)
    /\ LET content == IF call.fn = "createTask" THEN call.args._content
                      ELSE call.args._newContent
       IN  (call.fn = "createTask" \/ (call.fn = "updateTask" /\ InRange))
                => /\ Len(content) = 0 => RevertedWith(ErrEmpty)
                   /\ Len(content) > 500 => RevertedWith(ErrTooLong)
                   /\ call.status # "success" => Len(content) \notin 1 .. 500

\* updateTask was refused an id out of range with content of 501 bytes.
C33_Witness ==
    /\ call.fn = "updateTask"
    /\ ~InRange
    /\ Len(call.args._newContent) = 501
    /\ RevertedWith(ErrTaskNotFound)
    /\ Len(userTasks[call.sender]) = 1

(***************************************************************************)
(* The web client: useWallet (frontend/src/hooks/useWallet.js)             *)
(*                                                                         *)
(* The wallet's accounts are the Users of the contract.  A signer is       *)
(* modelled by the address it signs for, a Contract instance by the signer *)
(* it was built with, the provider by its class name, a network by its     *)
(* name, txStatus by its type; balance, isConnecting and the wallet hook's *)
(* own error take no part in what is read from or sent to the contract.    *)
(***************************************************************************)
\* The asynchronous runs of handleTransaction, and of fetchTasks, that a
\* behaviour may start.
MaxRuns == 2

MaxFetches == 2

\* The chain the wallet is on: the local Hardhat network of NETWORKS.
HardhatChainId == 31337

\* getNetworkInfo: the first NETWORKS entry with that chainId, or an unknown
\* network.
getNetworkInfo(id) == IF id = HardhatChainId THEN "Hardhat Local" ELSE "Unknown"

\* The account lists an accountsChanged event may carry.
AccountLists == {<<>>} \cup {<<u>> : u \in Users}

\* connectWallet, when the wallet grants accounts: the provider, the signer
\* of the first account, that account, the chain and its network.
connectWallet(accounts) ==
    /\ provider' = "BrowserProvider"
    /\ signer' = accounts[1]
    /\ account' = accounts[1]
    /\ chainId' = HardhatChainId
    /\ network' = getNetworkInfo(HardhatChainId)

\* disconnectWallet: everything back to null.
disconnectWallet ==
    /\ provider' = Null
    /\ signer' = Null
    /\ account' = Null
    /\ chainId' = Null
    /\ network' = Null

\* handleAccountsChanged: no account disconnects; another first account
\* replaces account, and nothing else.
handleAccountsChanged(accounts) ==
    IF Len(accounts) = 0
    THEN disconnectWallet
    ELSE IF accounts[1] # account
         THEN /\ account' = accounts[1]
              /\ UNCHANGED <<provider, signer, chainId, network>>
         ELSE UNCHANGED walletVars

(***************************************************************************)
(* The web client: useTodoContract                                         *)
(***************************************************************************)
\* JavaScript's Number of a uint256: exact below 2^53, and the ids and the
\* timestamps of the chain are far below.
Number(n) == n

\* The task object fetchTasks makes of one returned Task.
formatTask(task) ==
    [id |-> Number(task.id), content |-> task.content,
     completed |-> task.completed, createdAt |-> Number(task.createdAt),
     completedAt |-> Number(task.completedAt)]

\* formattedTasks without the filter.
formattedTasksUnfiltered(allTasks) ==
    [k \in 1 .. Len(allTasks) |-> formatTask(allTasks[k])]

\* formattedTasks: every returned Task formatted, those of empty content
\* filtered out.
formattedTasks(allTasks) ==
    SelectSeq([k \in 1 .. Len(allTasks) |-> formatTask(allTasks[k])],
              LAMBDA task : Len(task.content) > 0)

\* fetchTasks up to its await: loading, no error, and getAllTasks() sent
\* through the Contract instance the callback closed over.
fetchTasksStarts(by, run, instance) ==
    /\ Len(fetches) < MaxFetches
    /\ loading' = TRUE
    /\ error' = Null
    /\ fetches' = Append(fetches, [by |-> by, run |-> run, from |-> instance,
                                   phase |-> "sent", result |-> <<>>])

\* The effect on [signer, contractAddress]: a Contract instance for the
\* signer, or none; then the effect on [contract, fetchTasks] fetches with
\* the new instance.  CONTRACT_ADDRESS is configured.
ContractEffectDue ==
    IF signer = Null THEN contract # Null ELSE contract # signer

InitContract ==
    /\ ContractEffectDue
    /\ contract' = signer
    /\ IF signer # Null
       THEN fetchTasksStarts("effect", 0, signer)
       ELSE UNCHANGED <<loading, error, fetches>>
    /\ UNCHANGED <<tasks, txPending, txStatus, rendered, timers, runs>>
    /\ UNCHANGED walletVars
    /\ UNCHANGED chainVars

\* isConnected of useWallet.
isConnected == account # Null

\* The refresh button, rendered while connected: fetchTasks, which returns
\* at once without a Contract instance.
Refresh ==
    /\ isConnected
    /\ contract # Null
    /\ fetchTasksStarts("refresh", 0, contract)
    /\ UNCHANGED <<contract, tasks, txPending, txStatus, rendered, timers, runs>>
    /\ UNCHANGED walletVars
    /\ UNCHANGED chainVars

\* handleTransaction without the finally when the action threw.
handleTransactionSettlesNoFinally(resolved) ==
    /\ txStatus' = IF resolved THEN "success" ELSE "error"
    /\ timers' = timers + 1
    /\ txPending' = IF resolved THEN FALSE ELSE txPending

\* handleTransaction after its action settled: success or error, the timer
\* that clears the status, and txPending false in the finally.
handleTransactionSettles(resolved) ==
    /\ txStatus' = IF resolved THEN "success" ELSE "error"
    /\ timers' = timers + 1
    /\ txPending' = FALSE

\* The fetch settled: the mutation that awaited it returns its tx, and
\* handleTransaction goes on after `await action()`.
fetchTasksReturns(k) ==
    IF fetches[k].run = 0
    THEN UNCHANGED <<runs, txPending, txStatus, timers>>
    ELSE /\ runs' = [runs EXCEPT ![fetches[k].run].phase = "resolved"]
         /\ handleTransactionSettles(TRUE)

\* The node answers getAllTasks() for the signer of the instance.
FetchRead ==
    \E k \in 1 .. Len(fetches) :
        /\ fetches[k].phase = "sent"
        /\ getAllTasks(fetches[k].from)
        /\ fetches' = [fetches EXCEPT ![k].phase = "read", ![k].result = call'.ret]
        /\ UNCHANGED <<contract, tasks, loading, error, txPending, txStatus,
                       rendered, timers, runs>>
        /\ UNCHANGED walletVars

\* fetchTasks after its await: setTasks(formattedTasks), loading false.
FetchDone ==
    \E k \in 1 .. Len(fetches) :
        /\ fetches[k].phase = "read"
        /\ fetches' = [fetches EXCEPT ![k].phase = "done"]
        /\ tasks' = formattedTasks(fetches[k].result)
        /\ loading' = FALSE
        /\ fetchTasksReturns(k)
        /\ UNCHANGED <<contract, error, rendered>>
        /\ UNCHANGED walletVars
        /\ UNCHANGED chainVars

\* getAllTasks() rejects (the node is unreachable): the catch sets the
\* error, loading false, and fetchTasks returns normally.
FetchFails ==
    \E k \in 1 .. Len(fetches) :
        /\ fetches[k].phase = "sent"
        /\ fetches' = [fetches EXCEPT ![k].phase = "failed"]
        /\ error' = "Failed to fetch tasks"
        /\ loading' = FALSE
        /\ fetchTasksReturns(k)
        /\ UNCHANGED <<contract, tasks, rendered>>
        /\ UNCHANGED walletVars
        /\ UNCHANGED chainVars

(***************************************************************************)
(* The web client: App (App.jsx)                                           *)
(***************************************************************************)
\* What the user may have typed into the new-task and the edit inputs.
Inputs == {" ", " a ", repeat("a", 501)}

\* String.prototype.trim on those inputs.
Trim(str) ==
    CASE str = " " -> ""
      [] str = " a " -> "a"
      [] OTHER -> str

\* handleTransaction up to `await action()`, and the action up to its first
\* await: txPending and the pending status are set; without a Contract
\* instance the action throws at once and handleTransaction settles.
handleTransaction(fn, args) ==
    /\ Len(runs) < MaxRuns
    /\ IF contract = Null
       THEN /\ runs' = Append(runs, [fn |-> fn, args |-> args, from |-> Null,
                                     phase |-> "threw"])
            /\ handleTransactionSettles(FALSE)
       ELSE /\ runs' = Append(runs, [fn |-> fn, args |-> args, from |-> contract,
                                     phase |-> "submitting"])
            /\ txPending' = TRUE
            /\ txStatus' = "pending"
            /\ UNCHANGED timers
    /\ UNCHANGED <<contract, tasks, loading, error, rendered, fetches>>
    /\ UNCHANGED walletVars
    /\ UNCHANGED chainVars

\* The handlers of the rendered page: each reads the txPending of the render
\* it was created in.
handleCreateTask ==
    \E newTask \in Inputs :
        /\ isConnected
        /\ ~(Trim(newTask) = "" \/ rendered.txPending)
        /\ handleTransaction("createTask", [_content |-> Trim(newTask)])

handleToggle ==
    \E k \in 1 .. Len(tasks) :
        /\ isConnected /\ ~loading
        /\ ~rendered.txPending
        /\ handleTransaction("toggleTask", [_taskId |-> tasks[k].id])

handleSaveEdit ==
    \E k \in 1 .. Len(tasks), editContent \in Inputs :
        /\ isConnected /\ ~loading
        /\ ~(Trim(editContent) = "" \/ rendered.txPending)
        /\ handleTransaction("updateTask", [_taskId |-> tasks[k].id,
                                            _newContent |-> Trim(editContent)])

\* window.confirm answered with OK.
handleDelete ==
    \E k \in 1 .. Len(tasks) :
        /\ isConnected /\ ~loading
        /\ ~rendered.txPending
        /\ handleTransaction("deleteTask", [_taskId |-> tasks[k].id])

\* React renders again: the handlers now read the current txPending.
Render ==
    /\ rendered # [txPending |-> txPending]
    /\ rendered' = [txPending |-> txPending]
    /\ UNCHANGED <<contract, tasks, loading, error, txPending, txStatus, timers,
                   runs, fetches>>
    /\ UNCHANGED walletVars
    /\ UNCHANGED chainVars

\* A setTimeout of handleTransaction fires: setTxStatus(null).
TimerFires ==
    /\ timers > 0
    /\ timers' = timers - 1
    /\ txStatus' = Null
    /\ UNCHANGED <<contract, tasks, loading, error, txPending, rendered, runs, fetches>>
    /\ UNCHANGED walletVars
    /\ UNCHANGED chainVars

(***************************************************************************)
(* The mutations of useTodoContract, one await after the other.            *)
(***************************************************************************)
\* `await contract.fn(...)` resolved: the wallet signed and the node took the
\* transaction.
TxSubmitted ==
    \E r \in 1 .. Len(runs) :
        /\ runs[r].phase = "submitting"
        /\ runs' = [runs EXCEPT ![r].phase = "waiting"]
        /\ UNCHANGED <<contract, tasks, loading, error, txPending, txStatus,
                       rendered, timers, fetches>>
        /\ UNCHANGED walletVars
        /\ UNCHANGED chainVars

\* `await contract.fn(...)` rejected (the user refused to sign): the mutation
\* throws, and handleTransaction settles with the error.
TxRejected ==
    \E r \in 1 .. Len(runs) :
        /\ runs[r].phase = "submitting"
        /\ runs' = [runs EXCEPT ![r].phase = "threw"]
        /\ handleTransactionSettles(FALSE)
        /\ UNCHANGED <<contract, tasks, loading, error, rendered, fetches>>
        /\ UNCHANGED walletVars
        /\ UNCHANGED chainVars

\* The transaction of a run, executed by the contract for the run's signer.
execute(run) ==
    CASE run.fn = "createTask" -> createTask(run.from, run.args._content)
      [] run.fn = "toggleTask" -> toggleTask(run.from, run.args._taskId)
      [] run.fn = "updateTask" ->
            updateTask(run.from, run.args._taskId, run.args._newContent)
      [] run.fn = "deleteTask" -> deleteTask(run.from, run.args._taskId)

\* After `await tx.wait()` of a mined transaction: fetchTasks.
mutationRefetches(r) ==
    /\ runs' = [runs EXCEPT ![r].phase = "fetching"]
    /\ fetchTasksStarts("mutation", r, runs[r].from)
    /\ UNCHANGED <<txPending, txStatus, timers>>

\* mutationThrows that fetches all the same.
mutationThrowsAndRefetches(r) ==
    /\ runs' = [runs EXCEPT ![r].phase = "threw"]
    /\ handleTransactionSettles(FALSE)
    /\ fetchTasksStarts("mutation", r, runs[r].from)

\* After `await tx.wait()` threw: the mutation throws, no fetchTasks.
mutationThrows(r) ==
    /\ runs' = [runs EXCEPT ![r].phase = "threw"]
    /\ handleTransactionSettles(FALSE)
    /\ UNCHANGED <<loading, error, fetches>>

\* The transaction is mined (the gasLimit of getGasOptions spares the
\* estimate, so a reverting one is mined too) and `await tx.wait()` settles.
TxMined ==
    \E r \in 1 .. Len(runs) :
        /\ runs[r].phase = "waiting"
        /\ execute(runs[r])
        /\ IF call'.status = "success"
           THEN mutationRefetches(r)
           ELSE mutationThrows(r)
        /\ UNCHANGED <<contract, tasks, rendered>>
        /\ UNCHANGED walletVars

\* The connect buttons, rendered while not connected, and the connect on
\* mount: the wallet grants one of its accounts.
ConnectWallet ==
    /\ ~isConnected
    /\ \E u \in Users : connectWallet(<<u>>)
    /\ UNCHANGED <<contract, tasks, loading, error, txPending, txStatus, rendered,
                   timers, runs, fetches>>
    /\ UNCHANGED chainVars

\* The wallet button, rendered while connected.
DisconnectWallet ==
    /\ isConnected
    /\ disconnectWallet
    /\ UNCHANGED <<contract, tasks, loading, error, txPending, txStatus, rendered,
                   timers, runs, fetches>>
    /\ UNCHANGED chainVars

\* The wallet's accountsChanged event.
AccountsChanged ==
    /\ \E accounts \in AccountLists : handleAccountsChanged(accounts)
    /\ UNCHANGED <<contract, tasks, loading, error, txPending, txStatus, rendered,
                   timers, runs, fetches>>
    /\ UNCHANGED chainVars

\* One session of the page: the wallet connects and stays as it is.
NextClient ==
    \/ ConnectWallet
    \/ InitContract
    \/ Refresh
    \/ FetchRead
    \/ FetchDone
    \/ FetchFails
    \/ handleCreateTask
    \/ handleToggle
    \/ handleSaveEdit
    \/ handleDelete
    \/ Render
    \/ TimerFires
    \/ TxSubmitted
    \/ TxRejected
    \/ TxMined

\* The client in front of an account that already holds the two tasks of
\* the fixture.
SpecClient == InitTwoTasks /\ [][NextClient]_vars

\* The page while the wallet connects, disconnects and changes accounts; of
\* the mutations, the toggle.
NextWallet ==
    \/ ConnectWallet
    \/ DisconnectWallet
    \/ AccountsChanged
    \/ InitContract
    \/ Refresh
    \/ FetchRead
    \/ FetchDone
    \/ FetchFails
    \/ handleToggle
    \/ Render
    \/ TxSubmitted
    \/ TxRejected
    \/ TxMined

SpecWallet == InitTwoTasks /\ [][NextWallet]_vars

(***************************************************************************)
(* Vocabulary of the client properties.                                    *)
(***************************************************************************)
\* The phases in which the action of a handleTransaction run has not
\* settled, and those in which a fetchTasks has.
InFlight == {"submitting", "waiting", "fetching"}

SettledFetch == {"done", "failed"}

\* The phase of run r before and after a step, "none" before it started.
PhaseBefore(r) == IF r <= Len(runs) THEN runs[r].phase ELSE "none"

\* The fetches a run started.
FetchesOf(fs, r) == {k \in 1 .. Len(fs) : fs[k].run = r}

\* C34: A fetchTasks is answered with the store's getAllTasks() of its
\* signer, and when it succeeds the tasks list is that answer without the
\* slots of empty content: the same ids, in ascending id order, every field
\* as returned, so no deleted task is in the list.
C34_FetchShowsLiveSlots ==
    [][\A k \in 1 .. Len(fetches) :
          /\ (fetches[k].phase = "sent" /\ fetches'[k].phase = "read")
                => fetches'[k].result = userTasks[fetches[k].from]
          /\ (fetches[k].phase = "read" /\ fetches'[k].phase = "done")
                => LET result == fetches[k].result
                   IN  /\ IdsOf(tasks') = {result[j].id : j \in {i \in 1 .. Len(result) :
                                                              result[i].content # ""}}
                       /\ \A i \in 1 .. Len(tasks') :
                              /\ tasks'[i] = result[tasks'[i].id + 1]
                              /\ tasks'[i].content # ""
                       /\ \A i, j \in 1 .. Len(tasks') :
                              i < j => tasks'[i].id < tasks'[j].id]_vars

\* A fetch after the deletion of task 0 succeeded: the store returned both
\* slots, the list holds task 1 alone.
C34_Witness ==
    \E k \in 1 .. Len(fetches) :
        /\ fetches[k].phase = "done"
        /\ Len(fetches[k].result) = 2
        /\ fetches[k].result[1].content = ""
        /\ Len(tasks) = 1
        /\ tasks[1].id = 1

\* C35: A mutation of useTodoContract goes from submission to the wait, from
\* the wait to its one refetch only in the step in which its transaction
\* succeeded, and resolves only in the step in which that refetch settles;
\* a mutation that threw, at submission or at the wait, has started no
\* fetch.
C35_SubmitWaitThenRefetch ==
    [][\A r \in 1 .. Len(runs') :
          LET before == PhaseBefore(r)
              after == runs'[r].phase
              started == FetchesOf(fetches', r) \ FetchesOf(fetches, r)
          IN  /\ before # after =>
                    <<before, after>> \in {<<"none", "submitting">>, <<"none", "threw">>,
                                           <<"submitting", "waiting">>,
                                           <<"submitting", "threw">>,
                                           <<"waiting", "fetching">>,
                                           <<"waiting", "threw">>,
                                           <<"fetching", "resolved">>}
              /\ started # {} <=> (before = "waiting" /\ after = "fetching")
              /\ (before = "waiting" /\ after = "fetching") =>
                    /\ call'.fn = runs[r].fn
                    /\ call'.sender = runs[r].from
                    /\ call'.status = "success"
              /\ (before = "waiting" /\ after = "threw") => call'.status # "success"
              /\ (before = "fetching" /\ after = "resolved") =>
                    \E k \in FetchesOf(fetches, r) :
                        /\ fetches[k].phase \notin SettledFetch
                        /\ fetches'[k].phase \in SettledFetch
              /\ after \in {"submitting", "waiting", "threw"} => FetchesOf(fetches', r) = {}
              /\ after = "fetching" =>
                    /\ Cardinality(FetchesOf(fetches', r)) = 1
                    /\ \A k \in FetchesOf(fetches', r) : fetches'[k].phase \notin SettledFetch
              /\ after = "resolved" =>
                    /\ Cardinality(FetchesOf(fetches', r)) = 1
                    /\ \A k \in FetchesOf(fetches', r) : fetches'[k].phase \in SettledFetch]_vars

\* One mutation resolved after its refetch, and another threw at the wait
\* because its transaction reverted.
C35_Witness ==
    \E r, q \in 1 .. Len(runs) :
        /\ runs[r].phase = "resolved"
        /\ runs[q].phase = "threw"
        /\ call.status = "revert"
        /\ call.fn = runs[q].fn

\* C36: While txPending is true no handler starts another transaction.
C36_NoSecondTransactionWhilePending ==
    [][txPending => Len(runs') = Len(runs)]_vars

\* C37: The step in which the action of a handleTransaction run settles
\* leaves txPending false, and txStatus "success" if the action resolved,
\* "error" if it threw; and once no action is in flight txPending is false
\* and the status is not "pending".
C37_SettledRunClearsPending ==
    [][/\ \A r \in 1 .. Len(runs') :
              (PhaseBefore(r) # runs'[r].phase /\ runs'[r].phase \notin InFlight)
                  => /\ txPending' = FALSE
                     /\ runs'[r].phase = "resolved" => txStatus' = "success"
                     /\ runs'[r].phase = "threw" => txStatus' = "error"
       /\ (\A r \in 1 .. Len(runs') : runs'[r].phase \notin InFlight)
              => /\ txPending' = FALSE
                 /\ txStatus' # "pending"]_vars

\* A run whose transaction reverted has just settled: not pending, and the
\* error is shown.
C37_Witness ==
    /\ \E r \in 1 .. Len(runs) : runs[r].phase = "threw" /\ runs[r].from # Null
    /\ \A r \in 1 .. Len(runs) : runs[r].phase \notin InFlight
    /\ call.status = "revert"
    /\ txStatus = "error"
    /\ ~txPending

\* C38: Once every fetchTasks that was started has succeeded and no
\* transaction is in flight, the tasks list shows the store as it is now:
\* the live slots of the signer's array, each as stored.
C38_SettledFetchesShowLatest ==
    (/\ fetches # <<>>
     /\ \A k \in 1 .. Len(fetches) : fetches[k].phase = "done"
     /\ \A r \in 1 .. Len(runs) : runs[r].phase \notin InFlight)
        => LET stored == userTasks[fetches[Len(fetches)].from]
           IN  /\ IdsOf(tasks) = LiveSlots(stored)
               /\ \A i \in 1 .. Len(tasks) : tasks[i] = At(stored, tasks[i].id)

\* C39: While the wallet hook is connected the signer is the one of the
\* account it exposes.
C39_SignerBelongsToAccount ==
    (provider # Null /\ account # Null) => signer = account

====
